---- MODULE Spec2Model ----
(***************************************************************************)
(* Session context (AuthContext.tsx) and profile store adapter             *)
(* (userProfile.ts) over a hosted identity provider and document store.    *)
(*                                                                         *)
(* Every async function is cut at its awaits: the code between two awaits  *)
(* is one atomic step of the single-threaded event loop.  A request to the *)
(* store or to the provider takes effect when it is issued (one client,    *)
(* one ordered connection) and its reply resumes the caller in a later     *)
(* step; whether the request succeeds is chosen when it is issued.  The    *)
(* provider's auth-state notifications are queued and delivered in order,  *)
(* at any later step.  The calls in flight may resume in any order.        *)
(***************************************************************************)
EXTENDS Integers, Sequences, FiniteSets, Bags, TLC

\* ------------------------------------------------------------------ bounds
MaxOps == 1       \* UI invocations and connectivity events in one run
MaxTasks == 2     \* async calls in flight at once
MaxClock == 10    \* last value of the wall clock (it starts at 9)

\* ------------------------------------------------------------ value spaces
Nobody == "null"                 \* User | null
EmailUser == "u1"                \* the identity of the e-mail account
GoogleUser == "u2"               \* the identity of the Google account
AnonUser == "u3"                 \* an identity the provider holds without an e-mail
Uids == {EmailUser, GoogleUser, AnonUser}
NoEmail == "null"                \* User.email: string | null
EmailOf(u) == IF u = EmailUser THEN "a@x.com"
              ELSE IF u = GoogleUser THEN "g@x.com" ELSE NoEmail

\* A JS object is a function from its defined keys to their values; null and
\* a snapshot that does not exist are the object with no keys.
EmptyRec == [f \in {} |-> ""]
Has(r, f) == f \in DOMAIN r
Merge(a, b) == [f \in (DOMAIN a) \cup (DOMAIN b) |-> IF f \in DOMAIN b THEN b[f] ELSE a[f]]

\* Date.prototype.toISOString: a fixed-width, zero-padded digit string, so
\* that the order of the strings is the order of the instants.
toISOString(t) == <<t \div 10, t % 10>>
IsoLeq(a, b) == \/ a[1] < b[1]
                \/ a[1] = b[1] /\ a[2] <= b[2]
\* new Date(): the clock may have moved on since the last reading
Tick(t, d) == IF t + d > MaxClock THEN MaxClock ELSE t + d

\* --------------------------------------------------------- userProfile.ts
\* faulty variant: the two timestamps exchanged
defaultProfile_swapped(t1, t2) ==
  [email |-> "", phone |-> "", createdAt |-> toISOString(t2), updatedAt |-> toISOString(t1)]

\* line 12-17: the record fetch writes when none exists
defaultProfile(t1, t2) ==
  [email |-> "", phone |-> "", createdAt |-> toISOString(t1), updatedAt |-> toISOString(t2)]

\* line 20 and 23: { id: uid, ...object }
WithId(uid, obj) == Merge([id |-> uid], obj)

\* line 34-37: { ...data, updatedAt: now }
updateData(data, t) == Merge(data, [updatedAt |-> toISOString(t)])

\* faulty variant: set() instead of update(): the node is replaced
updateUserProfile_replace(rec, data, t) == updateData(data, t)

\* line 39: update(ref, updateData) merges the named children into the node
updateUserProfile(rec, data, t) == Merge(rec, updateData(data, t))

\* line 49-54: { ...data, phone: data.phone || '', createdAt, updatedAt }
createUserProfile(data, t1, t2) ==
  Merge(data, [phone |-> IF Has(data, "phone") /\ data.phone # "" THEN data.phone ELSE "",
               createdAt |-> toISOString(t1), updatedAt |-> toISOString(t2)])

\* ------------------------------------------------------------------ state
VARIABLES
  store,        \* document store: users/<uid>, EmptyRec when the node does not exist
  registered,   \* whether the provider knows the e-mail account
  authUser,     \* the provider's signed-in identity (auth.currentUser)
  notif,        \* auth-state notifications not yet delivered to the listener
  currentUser,  \* useState: currentUser
  userProfile,  \* useState: userProfile (EmptyRec is null)
  loading,      \* useState: loading
  isOffline,    \* useState: isOffline
  tasks,        \* the async calls in flight, each at one of its awaits
  now,          \* wall clock
  left,         \* UI invocations and connectivity events still to come
  ev            \* what the last step did (observation only)

vars == <<store, registered, authUser, notif, currentUser, userProfile, loading,
          isOffline, tasks, now, left, ev>>

NoEv == [op |-> "", step |-> "", uid |-> Nobody, toasts |-> {}, done |-> "", fetched |-> ""]

\* An async call waiting at await `pc`.
Task(op, pc, uid, data, snap, err, off) ==
  [op |-> op, pc |-> pc, uid |-> uid, data |-> data, snap |-> snap, err |-> err, off |-> off]
At(i, op, pc) == i.op = op /\ i.pc = pc
\* the calls in flight are a bag: the event loop may resume any of them
Pending == BagToSet(tasks)
Without(i) == tasks (-) SetToBag({i})
With(i) == tasks (+) SetToBag({i})
Become(i, j) == (tasks (-) SetToBag({i})) (+) SetToBag({j})
CanSpawn == BagCardinality(tasks) < MaxTasks
\* faulty variant: the children are rendered while loading
CanInvoke_whileLoading == left > 0
CanInvoke == ~loading /\ left > 0       \* line 236: children render only when loaded

\* The record register left behind in an earlier session.
AliceRecord == [name |-> "Alice", email |-> EmailOf(EmailUser), phone |-> "",
                createdAt |-> toISOString(9), updatedAt |-> toISOString(9)]

\* The session the provider persisted is one of `sessions`, on a device where
\* the e-mail account was registered earlier.
InitAt(budget, sessions, clock) ==
  /\ registered \in BOOLEAN
  /\ store = [u \in Uids |-> IF registered /\ u = EmailUser THEN AliceRecord ELSE EmptyRec]
  /\ authUser \in {u \in sessions : u # Nobody => registered}
  /\ notif = <<authUser>>            \* line 63: the subscription reports the persisted session
  /\ currentUser = Nobody            \* line 44
  /\ userProfile = EmptyRec          \* line 45
  /\ loading = TRUE                  \* line 46
  /\ isOffline \in BOOLEAN           \* line 47: !navigator.onLine
  /\ tasks = EmptyBag
  /\ now = clock
  /\ left = budget
  /\ ev = NoEv

InitWith(budget) == InitAt(budget, {Nobody, EmailUser}, 9)

Init == InitWith(MaxOps)

\* The persisted session may also be that of the identity without an e-mail.
InitAnon == InitAt(MaxOps, {Nobody, EmailUser, AnonUser}, 9)

\* The clock stands at its last value: the time stamps play no part in
\* whether loading ends.
InitLive == InitAt(MaxOps, {Nobody, EmailUser}, MaxClock)

\* One more event than Init allows.
InitWide == InitWith(MaxOps + 1)

\* The provider reports a change of identity to the subscription.
SignedIn(u) == IF u = authUser THEN notif ELSE Append(notif, u)

\* ------------------------------------------------- fetchUserProfile, line 6-29
\* line 8-9: get(userRef) is issued; the caller waits for the snapshot
fetchTask(op, uid, ok) ==
  Task(op, "get", uid, EmptyRec, IF ok THEN store[uid] ELSE EmptyRec,
       IF ok THEN "" ELSE "store-error", FALSE)

\* The notification a public operation ends with once the fetch has returned:
\* line 95, 122, 153, 201.
SuccessToast(op) ==
  CASE op = "login" -> {"Successfully logged in!"}
    [] op = "register" -> {"Successfully registered!"}
    [] op = "updateProfile" -> {"Profile updated successfully!"}
    [] op = "googleSignIn" -> {"Successfully signed in with Google!"}
    [] OTHER -> {}

\* faulty variant: setLoading(false) only where a profile came back
afterFetch_loadingNeedsProfile(i, profile, fetched, toasts) ==
  /\ userProfile' = IF profile # EmptyRec THEN profile ELSE userProfile
  /\ loading' = IF i.op = "listener" /\ profile # EmptyRec THEN FALSE ELSE loading
  /\ tasks' = Without(i)
  /\ ev' = [NoEv EXCEPT !.op = i.op, !.step = "fetchReturn", !.uid = i.uid,
                        !.toasts = toasts \cup SuccessToast(i.op),
                        !.done = IF i.op = "listener" THEN "" ELSE "ok",
                        !.fetched = fetched]

\* faulty variant: the profile is stored even when it is null
afterFetch_storesNull(i, profile, fetched, toasts) ==
  /\ userProfile' = profile
  /\ loading' = IF i.op = "listener" THEN FALSE ELSE loading
  /\ tasks' = Without(i)
  /\ ev' = [NoEv EXCEPT !.op = i.op, !.step = "fetchReturn", !.uid = i.uid,
                        !.toasts = toasts \cup SuccessToast(i.op),
                        !.done = IF i.op = "listener" THEN "" ELSE "ok",
                        !.fetched = fetched]

\* What every caller does with the profile fetchUserProfile resolved to:
\* line 69-71 and 82 / 92-95 / 119-122 / 150-153 / 198-201.
afterFetch(i, profile, fetched, toasts) ==
  /\ userProfile' = IF profile # EmptyRec THEN profile ELSE userProfile
  /\ loading' = IF i.op = "listener" THEN FALSE ELSE loading
  /\ tasks' = Without(i)
  /\ ev' = [NoEv EXCEPT !.op = i.op, !.step = "fetchReturn", !.uid = i.uid,
                        !.toasts = toasts \cup SuccessToast(i.op),
                        !.done = IF i.op = "listener" THEN "" ELSE "ok",
                        !.fetched = fetched]

\* line 24-27: what the catch block of fetchUserProfile shows
fetchErrorToast == {"Unable to load profile"}

\* line 24-28: the read failed
fetchGetFailed(i) ==
  /\ i.pc = "get" /\ i.err # ""
  /\ afterFetch(i, EmptyRec, "null", fetchErrorToast)
  /\ UNCHANGED <<store, registered, authUser, notif, currentUser, isOffline, now, left>>

\* line 23: the record exists
fetchFound(i) ==
  /\ i.pc = "get" /\ i.err = ""
  /\ i.snap # EmptyRec
  /\ afterFetch(i, WithId(i.uid, i.snap), "found", {})
  /\ UNCHANGED <<store, registered, authUser, notif, currentUser, isOffline, now, left>>

\* line 11-19: no record; the default one is written
fetchCreate(i) ==
  /\ i.pc = "get" /\ i.err = ""
  /\ i.snap = EmptyRec
  /\ \E d \in {0, 1}, ok \in BOOLEAN :
       LET t1 == now
           t2 == Tick(t1, d)
           rec == defaultProfile(t1, t2)
       IN /\ now' = t2
          /\ store' = IF ok THEN [store EXCEPT ![i.uid] = rec] ELSE store
          /\ tasks' = Become(i, [i EXCEPT !.pc = "set", !.snap = rec,
                                            !.err = IF ok THEN "" ELSE "store-error"])
          /\ ev' = [NoEv EXCEPT !.op = i.op, !.step = "fetchCreate", !.uid = i.uid]
  /\ UNCHANGED <<registered, authUser, notif, currentUser, userProfile, loading, isOffline, left>>

\* line 20: the default record is returned; line 24-28 when the write failed
fetchCreated(i) ==
  /\ i.pc = "set"
  /\ IF i.err = ""
       THEN afterFetch(i, WithId(i.uid, i.snap), "created", {})
       ELSE afterFetch(i, EmptyRec, "null", fetchErrorToast)
  /\ UNCHANGED <<store, registered, authUser, notif, currentUser, isOffline, now, left>>

\* ---------------------------------------- onAuthStateChanged listener, line 63-83
AuthStateChanged ==
  /\ notif # <<>>
  /\ LET user == Head(notif) IN
       /\ notif' = Tail(notif)
       /\ currentUser' = user
       /\ IF user = Nobody
            THEN /\ userProfile' = EmptyRec
                 /\ loading' = FALSE
                 /\ ev' = [NoEv EXCEPT !.op = "listener", !.step = "signedOut"]
                 /\ UNCHANGED tasks
            ELSE /\ CanSpawn
                 /\ \E ok \in BOOLEAN : tasks' = With(fetchTask("listener", user, ok))
                 /\ ev' = [NoEv EXCEPT !.op = "listener", !.step = "fetchIssue", !.uid = user]
                 /\ UNCHANGED <<userProfile, loading>>
  /\ UNCHANGED <<store, registered, authUser, isOffline, now, left>>

\* ------------------------------------- online/offline listeners, line 49-60, 86
\* A change of isOffline re-runs the auth effect: the old subscription is
\* removed and the new one reports the provider's current identity.
handleOnline ==
  /\ isOffline /\ left > 0
  /\ isOffline' = FALSE
  /\ notif' = <<authUser>>
  /\ left' = left - 1
  /\ ev' = [NoEv EXCEPT !.op = "online", !.step = "event"]
  /\ UNCHANGED <<store, registered, authUser, currentUser, userProfile, loading, tasks, now>>

handleOffline ==
  /\ ~isOffline /\ left > 0
  /\ isOffline' = TRUE
  /\ notif' = <<authUser>>
  /\ left' = left - 1
  /\ ev' = [NoEv EXCEPT !.op = "offline", !.step = "event"]
  /\ UNCHANGED <<store, registered, authUser, currentUser, userProfile, loading, tasks, now>>

\* ------------------------------------------------------- public operations
\* A public operation ends: its outcome goes to the caller (line 103, 126, ...).
finish(i, toasts, done) ==
  /\ tasks' = Without(i)
  /\ ev' = [NoEv EXCEPT !.op = i.op, !.step = "end", !.uid = i.uid,
                        !.toasts = toasts, !.done = done]

\* A public operation is invoked and waits for its first request.
start(op, pc, uid, data, err, off) ==
  /\ CanSpawn
  /\ left' = left - 1
  /\ tasks' = With(Task(op, pc, uid, data, EmptyRec, err, off))
  /\ ev' = [NoEv EXCEPT !.op = op, !.step = "call", !.uid = uid]

\* The caller goes on to fetchUserProfile(uid); its arguments stay in scope.
thenFetch(i) ==
  /\ \E ok \in BOOLEAN :
       tasks' = Become(i, [fetchTask(i.op, i.uid, ok) EXCEPT !.data = i.data])
  /\ ev' = [NoEv EXCEPT !.op = i.op, !.step = "fetchIssue", !.uid = i.uid]

\* ------------------------------------------------------------ login, line 88-105
\* line 90: signInWithEmailAndPassword
login(uid, pwOk) ==
  /\ CanInvoke
  /\ \E net \in BOOLEAN :
       LET err == IF ~net THEN "auth/network-request-failed"
                  ELSE IF ~registered \/ ~pwOk THEN "auth/wrong-password" ELSE ""
       IN /\ start("login", "signIn", uid, EmptyRec, err, FALSE)
          /\ authUser' = IF err = "" THEN uid ELSE authUser
          /\ notif' = IF err = "" THEN SignedIn(uid) ELSE notif
  /\ UNCHANGED <<store, registered, currentUser, userProfile, loading, isOffline, now>>

\* line 96-103: which notification a failed login shows
loginErrorToast(err) ==
  IF err = "auth/network-request-failed"
    THEN {"Network error. Please check your connection."}
    ELSE {"Failed to login"}

\* faulty variant: only a network error is taken as a failure
loginRejected_networkOnly(err) == err = "auth/network-request-failed"

\* line 90-91: an error of the provider skips the fetch
loginRejected(err) == err # ""

\* line 91: fetchUserProfile(result.user.uid), or the catch block
loginAfterSignIn(i) ==
  /\ At(i, "login", "signIn")
  /\ IF loginRejected(i.err)
       THEN finish(i, loginErrorToast(i.err), i.err)
       ELSE thenFetch(i)
  /\ UNCHANGED <<store, registered, authUser, notif, currentUser, userProfile, loading,
                 isOffline, now, left>>

\* -------------------------------------------------------- register, line 107-128
\* line 109: createUserWithEmailAndPassword
register(name) ==
  /\ CanInvoke
  /\ \E net \in BOOLEAN :
       LET err == IF ~net THEN "auth/network-request-failed"
                  ELSE IF registered THEN "auth/email-already-in-use" ELSE ""
       IN /\ start("register", "createUser", EmailUser,
                   [name |-> name, email |-> EmailOf(EmailUser)], err, FALSE)
          /\ registered' = (registered \/ err = "")
          /\ authUser' = IF err = "" THEN EmailUser ELSE authUser
          /\ notif' = IF err = "" THEN SignedIn(EmailUser) ELSE notif
  /\ UNCHANGED <<store, currentUser, userProfile, loading, isOffline, now>>

\* line 111-116 / 190-195: createUserProfile(user.uid, data) is issued (set)
createIssue(i, data) ==
  \E d \in {0, 1}, ok \in BOOLEAN :
    LET t1 == now
        t2 == Tick(t1, d)
    IN /\ now' = t2
       /\ store' = IF ok THEN [store EXCEPT ![i.uid] = createUserProfile(data, t1, t2)]
                         ELSE store
       /\ tasks' = Become(i, [i EXCEPT !.pc = "create",
                                         !.err = IF ok THEN "" ELSE "store-error"])
       /\ ev' = [NoEv EXCEPT !.op = i.op, !.step = "createIssue", !.uid = i.uid]

\* line 111-116: the data register gives createUserProfile
registerData(data, t) == Merge(data, [phone |-> "", createdAt |-> toISOString(t)])

registerAfterCreateUser(i) ==
  /\ At(i, "register", "createUser")
  /\ IF i.err # ""
       THEN /\ finish(i, {"Failed to register"}, i.err)
            /\ UNCHANGED <<store, now>>
       ELSE createIssue(i, registerData(i.data, now))
  /\ UNCHANGED <<registered, authUser, notif, currentUser, userProfile, loading, isOffline, left>>

\* line 118: fetchUserProfile(user.uid), or the catch block when the write failed
registerAfterCreate(i) ==
  /\ At(i, "register", "create")
  /\ IF i.err # ""
       THEN finish(i, {"Failed to register"}, i.err)
       ELSE thenFetch(i)
  /\ UNCHANGED <<store, registered, authUser, notif, currentUser, userProfile, loading,
                 isOffline, now, left>>

\* ---------------------------------------------------------- logout, line 130-140
\* line 132: signOut
logout ==
  /\ CanInvoke
  /\ \E ok \in BOOLEAN :
       /\ start("logout", "signOut", authUser, EmptyRec,
                IF ok THEN "" ELSE "auth/network-request-failed", FALSE)
       /\ authUser' = IF ok THEN Nobody ELSE authUser
       /\ notif' = IF ok THEN SignedIn(Nobody) ELSE notif
  /\ UNCHANGED <<store, registered, currentUser, userProfile, loading, isOffline, now>>

\* line 133-134, or the catch block
logoutAfterSignOut(i) ==
  /\ At(i, "logout", "signOut")
  /\ IF i.err = ""
       THEN /\ userProfile' = EmptyRec
            /\ finish(i, {"Successfully logged out!"}, "ok")
       ELSE /\ finish(i, {"Failed to logout"}, i.err)
            /\ UNCHANGED userProfile
  /\ UNCHANGED <<store, registered, authUser, notif, currentUser, loading, isOffline, now, left>>

\* --------------------------------------------------- updateProfile, line 142-161
\* faulty variant: a bare return instead of the throw
notAuthenticated_swallowed == "ok"

\* line 144: throw new Error('No user logged in')
notAuthenticated == "No user logged in"

\* line 143-148: the identity `who` is checked, then updateUserProfile(who.uid, data)
updateProfileAs(who, data) ==
  /\ CanInvoke
  /\ IF who = Nobody
       THEN /\ left' = left - 1
            /\ ev' = [NoEv EXCEPT !.op = "updateProfile", !.step = "call",
                                  !.done = notAuthenticated]
            /\ UNCHANGED <<store, tasks, now>>
       ELSE \E d \in {0, 1}, ok \in BOOLEAN :
              LET t1 == Tick(now, d) IN
              /\ start("updateProfile", "update", who, data,
                       IF ok THEN "" ELSE "store-error", isOffline)
              /\ now' = t1
              /\ store' = IF ok THEN [store EXCEPT ![who] = updateUserProfile(store[who], data, t1)]
                                ELSE store
  /\ UNCHANGED <<registered, authUser, notif, currentUser, userProfile, loading, isOffline>>

updateProfile(data) == updateProfileAs(currentUser, data)

\* line 149: fetchUserProfile(currentUser.uid), or the catch block (line 154-160)
updateProfileAfterUpdate(i) ==
  /\ At(i, "updateProfile", "update")
  /\ IF i.err # ""
       THEN finish(i, IF i.off THEN {} ELSE {"Failed to update profile"}, i.err)
       ELSE thenFetch(i)
  /\ UNCHANGED <<store, registered, authUser, notif, currentUser, userProfile, loading,
                 isOffline, now, left>>

\* ---------------------------------------------------- googleSignIn, line 185-207
\* line 188: signInWithPopup; the Google account carries a name and a photo
googleSignIn ==
  /\ CanInvoke
  /\ \E ok \in BOOLEAN :
       /\ start("googleSignIn", "popup", GoogleUser,
                [name |-> "Gina", email |-> EmailOf(GoogleUser), photoURL |-> "g.png"],
                IF ok THEN "" ELSE "auth/popup-closed-by-user", FALSE)
       /\ authUser' = IF ok THEN GoogleUser ELSE authUser
       /\ notif' = IF ok THEN SignedIn(GoogleUser) ELSE notif
  /\ UNCHANGED <<store, registered, currentUser, userProfile, loading, isOffline, now>>

\* line 190-195: the data googleSignIn gives createUserProfile
googleData(data) == Merge(data, [phone |-> ""])

googleAfterPopup(i) ==
  /\ At(i, "googleSignIn", "popup")
  /\ IF i.err # ""
       THEN /\ finish(i, {"Failed to sign in with Google"}, i.err)
            /\ UNCHANGED <<store, now>>
       ELSE createIssue(i, googleData(i.data))
  /\ UNCHANGED <<registered, authUser, notif, currentUser, userProfile, loading, isOffline, left>>

\* line 197: fetchUserProfile(user.uid), or the catch block when the write failed
googleAfterCreate(i) ==
  /\ At(i, "googleSignIn", "create")
  /\ IF i.err # ""
       THEN finish(i, {"Failed to sign in with Google"}, i.err)
       ELSE thenFetch(i)
  /\ UNCHANGED <<store, registered, authUser, notif, currentUser, userProfile, loading,
                 isOffline, now, left>>

\* -------------------------------------------------- updatePassword, line 163-183
\* faulty variant: only the identity is looked at, not its e-mail
hasEmail_userOnly(who) == who # Nobody

\* line 164: currentUser?.email
hasEmail(who) == who # Nobody /\ EmailOf(who) # NoEmail

\* line 164-174: the guard, then reauthenticateWithCredential is issued
updatePassword ==
  /\ CanInvoke
  /\ IF ~hasEmail(currentUser)
       THEN /\ left' = left - 1
            /\ ev' = [NoEv EXCEPT !.op = "updatePassword", !.step = "call",
                                  !.uid = currentUser, !.done = notAuthenticated]
            /\ UNCHANGED tasks
       ELSE \E pwOk \in BOOLEAN :
              start("updatePassword", "reauthenticate", currentUser, EmptyRec,
                    IF pwOk THEN "" ELSE "auth/wrong-password", FALSE)
  /\ UNCHANGED <<store, registered, authUser, notif, currentUser, userProfile, loading,
                 isOffline, now>>

\* faulty variant: the outcome of the re-authentication is not awaited
reauthRejected_ignored(err) == FALSE

\* line 174: a rejected reauthenticateWithCredential goes to the catch block
reauthRejected(err) == err # ""

\* line 175: firebaseUpdatePassword is issued, or the catch block (line 178-182)
updatePasswordAfterReauth(i) ==
  /\ At(i, "updatePassword", "reauthenticate")
  /\ IF reauthRejected(i.err)
       THEN finish(i, {"Failed to update password"}, i.err)
       ELSE /\ \E ok \in BOOLEAN :
                 tasks' = Become(i, [i EXCEPT !.pc = "updatePassword",
                                              !.err = IF ok THEN "" ELSE "auth/weak-password"])
            /\ ev' = [NoEv EXCEPT !.op = i.op, !.step = "passwordIssue", !.uid = i.uid]
  /\ UNCHANGED <<store, registered, authUser, notif, currentUser, userProfile, loading,
                 isOffline, now, left>>

\* line 177, or the catch block (line 178-182)
updatePasswordAfterUpdate(i) ==
  /\ At(i, "updatePassword", "updatePassword")
  /\ IF i.err # ""
       THEN finish(i, {"Failed to update password"}, i.err)
       ELSE finish(i, {"Password updated successfully"}, "ok")
  /\ UNCHANGED <<store, registered, authUser, notif, currentUser, userProfile, loading,
                 isOffline, now, left>>

\* --------------------------------------------------- resetPassword, line 209-218
\* line 211: sendPasswordResetEmail
resetPassword ==
  /\ CanInvoke
  /\ \E ok \in BOOLEAN :
       start("resetPassword", "sendReset", Nobody, EmptyRec,
             IF ok THEN "" ELSE "auth/user-not-found", FALSE)
  /\ UNCHANGED <<store, registered, authUser, notif, currentUser, userProfile, loading,
                 isOffline, now>>

\* line 212, or the catch block (line 213-217)
resetPasswordAfterSend(i) ==
  /\ At(i, "resetPassword", "sendReset")
  /\ IF i.err # ""
       THEN finish(i, {"Failed to send reset email"}, i.err)
       ELSE finish(i, {"Password reset email sent!"}, "ok")
  /\ UNCHANGED <<store, registered, authUser, notif, currentUser, userProfile, loading,
                 isOffline, now, left>>

\* The partial data the UI passes to updateProfile (Partial<UserProfile>).
UpdateInputs == {[name |-> "Bob"], [id |-> GoogleUser]}

\* The event loop resumes any call whose reply has arrived.
FetchGetFailed == \E i \in Pending : fetchGetFailed(i)
FetchFound == \E i \in Pending : fetchFound(i)
FetchCreate == \E i \in Pending : fetchCreate(i)
FetchCreated == \E i \in Pending : fetchCreated(i)
LoginAfterSignIn == \E i \in Pending : loginAfterSignIn(i)
RegisterAfterCreateUser == \E i \in Pending : registerAfterCreateUser(i)
RegisterAfterCreate == \E i \in Pending : registerAfterCreate(i)
LogoutAfterSignOut == \E i \in Pending : logoutAfterSignOut(i)
UpdateProfileAfterUpdate == \E i \in Pending : updateProfileAfterUpdate(i)
GoogleAfterPopup == \E i \in Pending : googleAfterPopup(i)
GoogleAfterCreate == \E i \in Pending : googleAfterCreate(i)
UpdatePasswordAfterReauth == \E i \in Pending : updatePasswordAfterReauth(i)
UpdatePasswordAfterUpdate == \E i \in Pending : updatePasswordAfterUpdate(i)
ResetPasswordAfterSend == \E i \in Pending : resetPasswordAfterSend(i)

\* The UI invokes a public operation.
Login == \E pwOk \in BOOLEAN : login(EmailUser, pwOk)
Register == register("Alice")
UpdateProfile == \E data \in UpdateInputs : updateProfile(data)

Next ==
  \/ AuthStateChanged
  \/ handleOnline
  \/ handleOffline
  \/ FetchGetFailed
  \/ FetchFound
  \/ FetchCreate
  \/ FetchCreated
  \/ Login
  \/ LoginAfterSignIn
  \/ Register
  \/ RegisterAfterCreateUser
  \/ RegisterAfterCreate
  \/ logout
  \/ LogoutAfterSignOut
  \/ UpdateProfile
  \/ UpdateProfileAfterUpdate
  \/ googleSignIn
  \/ GoogleAfterPopup
  \/ GoogleAfterCreate
  \/ updatePassword
  \/ UpdatePasswordAfterReauth
  \/ UpdatePasswordAfterUpdate
  \/ resetPassword
  \/ ResetPasswordAfterSend

Spec == Init /\ [][Next]_vars

SpecWide == InitWide /\ [][Next]_vars

SpecAnon == InitAnon /\ [][Next]_vars

\* The provider delivers its notifications and every store call that was
\* issued completes or fails.
Fairness ==
  /\ WF_vars(AuthStateChanged)
  /\ WF_vars(FetchGetFailed)
  /\ WF_vars(FetchFound)
  /\ WF_vars(FetchCreate)
  /\ WF_vars(FetchCreated)

SpecLive == InitLive /\ [][Next]_vars /\ Fairness

\* ================================================================== claims
\* The last step issued a read or a write of the store.
IssuedStoreCall ==
  \/ ev.step \in {"fetchIssue", "fetchCreate", "createIssue"}
  \/ ev.op = "updateProfile" /\ ev.step = "call" /\ ev.done = ""

FailureToasts ==
  {"Failed to login", "Network error. Please check your connection."}

\* toast.success of the seven public operations
SuccessToasts ==
  {"Successfully logged in!", "Successfully registered!", "Successfully logged out!",
   "Profile updated successfully!", "Password updated successfully",
   "Successfully signed in with Google!", "Password reset email sent!"}

\* toast.error of the seven public operations
ErrorToasts ==
  FailureToasts \cup {"Failed to register", "Failed to logout", "Failed to update profile",
                      "Failed to update password", "Failed to sign in with Google",
                      "Failed to send reset email"}

\* C1: when register(email, password, name) has completed successfully (here:
\* with its own profile fetch returning a record), the stored record of the new
\* identity and userProfile both carry name, email, phone "" and both timestamps.
C1_RegisterStoresGivenProfile ==
  (ev.op = "register" /\ ev.done = "ok" /\ ev.fetched # "null") =>
     \A r \in {store[EmailUser], userProfile} :
        /\ Has(r, "name") /\ r.name = "Alice"
        /\ Has(r, "email") /\ r.email = EmailOf(EmailUser)
        /\ Has(r, "phone") /\ r.phone = ""
        /\ Has(r, "createdAt") /\ Has(r, "updatedAt")

\* C2: once the provider is signed out, every notification has been delivered
\* and no logout is still running, currentUser and userProfile are null and no
\* step issues a store call (authUser = Nobody holds until the next sign-in).
C2_SignedOutStaysCleared ==
  (/\ authUser = Nobody /\ notif = <<>> /\ ~loading
   /\ \A i \in Pending : i.op # "logout") =>
     /\ currentUser = Nobody
     /\ userProfile = EmptyRec
     /\ ~IssuedStoreCall

\* C3: a profile is held only together with the identity it belongs to (looked
\* at in the states where the listener has been told of every change of identity).
C3_ProfileBelongsToCurrentUser ==
  (userProfile # EmptyRec /\ notif = <<>>) =>
     (currentUser # Nobody /\ userProfile.id = currentUser)

\* C4: every record in the store has an email and a phone field.
C4_StoredRecordHasEmailAndPhone ==
  \A u \in Uids : store[u] # EmptyRec => (Has(store[u], "email") /\ Has(store[u], "phone"))

\* C5: a fetch that fails while isOffline is true returns null, shows no
\* notification and leaves isOffline true.
C5_OfflineFetchFailureIsSilent ==
  [][\A i \in Pending :
       (isOffline /\ i.err # "" /\ (fetchGetFailed(i) \/ fetchCreated(i))) =>
          /\ ev'.fetched = "null"
          /\ "Unable to load profile" \notin ev'.toasts
          /\ isOffline']_vars

\* C6: updateProfile with currentUser null fails with the not-authenticated
\* condition, issues no store call, starts nothing and leaves userProfile alone.
C6_UpdateProfileNeedsUser ==
  [][(currentUser = Nobody /\ UpdateProfile) =>
       /\ ev'.done = "No user logged in"
       /\ store' = store
       /\ tasks' = tasks
       /\ userProfile' = userProfile]_vars

\* updateProfile was invoked with no identity and threw.
C6_Witness ==
  ev.op = "updateProfile" /\ ev.step = "call" /\ ev.done = "No user logged in"
    /\ currentUser = Nobody

\* C7: fetchUserProfile(id) for an id without a record writes, when the store
\* takes the write, a record of exactly email "", phone "", createdAt and
\* updatedAt with createdAt <= updatedAt, both read from the clock in that
\* step, and returns that record with id = the requested id.
C7_FetchCreatesDefault ==
  /\ [][\A i \in Pending : fetchCreate(i) =>
         \E j \in BagToSet(tasks') :
            /\ tasks' = Become(i, j)
            /\ DOMAIN j.snap = {"email", "phone", "createdAt", "updatedAt"}
            /\ j.snap.email = "" /\ j.snap.phone = ""
            /\ IsoLeq(j.snap.createdAt, j.snap.updatedAt)
            /\ IsoLeq(toISOString(now), j.snap.createdAt)
            /\ j.snap.updatedAt = toISOString(now')
            /\ (j.err = "" => store'[i.uid] = j.snap)]_vars
  /\ [][\A i \in Pending : (fetchCreated(i) /\ i.err = "") =>
         /\ ev'.fetched = "created"
         /\ DOMAIN userProfile' = DOMAIN i.snap \cup {"id"}
         /\ userProfile'.id = i.uid
         /\ \A f \in DOMAIN i.snap : userProfile'[f] = i.snap[f]]_vars

\* A fetch returned the default record it wrote, read over a clock tick.
C7_Witness ==
  /\ ev.fetched = "created"
  /\ userProfile # EmptyRec /\ userProfile.id = ev.uid
  /\ userProfile.createdAt # userProfile.updatedAt

\* C8: fetchUserProfile(id) for an id with a record returns the stored fields
\* together with id = the requested id, and leaves the store as it is.
C8_FetchReturnsStoredWithRequestedId ==
  [][\A i \in Pending : fetchFound(i) =>
       /\ ev'.fetched = "found"
       /\ userProfile'.id = i.uid
       /\ DOMAIN userProfile' = DOMAIN i.snap \cup {"id"}
       /\ \A f \in DOMAIN i.snap \ {"id"} : userProfile'[f] = i.snap[f]
       /\ store' = store]_vars

\* C9: a successful updateUserProfile(id, data) on an existing record sets the
\* fields data names and updatedAt, keeps every other field, and the new
\* updatedAt is >= the previous one.
C9_UpdateIsPartialMerge ==
  [][\A data \in UpdateInputs :
       (/\ currentUser # Nobody
        /\ updateProfile(data)
        /\ store[currentUser] # EmptyRec
        /\ \E j \in BagToSet(tasks') : tasks' = With(j) /\ j.err = "") =>
          LET old == store[currentUser]
              new == store'[currentUser]
          IN /\ DOMAIN new = DOMAIN old \cup DOMAIN data \cup {"updatedAt"}
             /\ \A f \in DOMAIN data \ {"updatedAt"} : new[f] = data[f]
             /\ \A f \in DOMAIN old \ (DOMAIN data \cup {"updatedAt"}) : new[f] = old[f]
             /\ Has(old, "updatedAt") => IsoLeq(old.updatedAt, new.updatedAt)
             /\ \A u \in Uids \ {currentUser} : store'[u] = store[u]]_vars

\* An update of the name has been merged into the record register wrote.
C9_Witness ==
  /\ ev.op = "updateProfile" /\ ev.step = "call" /\ ev.done = ""
  /\ \E i \in Pending : /\ At(i, "updateProfile", "update") /\ i.err = "" /\ i.uid = EmailUser
  /\ store[EmailUser] = [AliceRecord EXCEPT !.name = "Bob", !.updatedAt = toISOString(10)]

\* C10: a login the provider rejects (wrong password) issues no fetch, rethrows
\* the provider's error, shows a failure notification and leaves userProfile alone.
C10_RejectedLoginChangesNothing ==
  [][\A i \in Pending :
       (At(i, "login", "signIn") /\ i.err = "auth/wrong-password" /\ loginAfterSignIn(i)) =>
          /\ tasks' = Without(i)
          /\ ev'.step = "end"
          /\ ev'.done = "auth/wrong-password"
          /\ ev'.toasts # {} /\ ev'.toasts \subseteq FailureToasts
          /\ userProfile' = userProfile
          /\ store' = store]_vars

\* A login ended with the provider's wrong-password error.
C10_Witness ==
  ev.op = "login" /\ ev.step = "end" /\ ev.done = "auth/wrong-password"

\* C11: updatePassword invoked while currentUser is null or has no e-mail fails
\* with the not-authenticated condition and sends the provider neither a
\* re-authentication nor a password change: no call is started.
C11_UpdatePasswordNeedsEmail ==
  [][((currentUser = Nobody \/ EmailOf(currentUser) = NoEmail) /\ updatePassword) =>
       /\ ev'.step = "call"
       /\ ev'.done = "No user logged in"
       /\ tasks' = tasks]_vars

\* updatePassword was invoked for the signed-in identity without an e-mail and threw.
C11_Witness ==
  /\ ev.op = "updatePassword" /\ ev.step = "call" /\ ev.done = "No user logged in"
  /\ currentUser = AnonUser /\ authUser = AnonUser

\* C12: every invocation of a public operation that has ended showed a
\* notification: a success notification when it returned normally, a failure
\* notification when it threw.
C12_EveryEndIsNotified ==
  (ev.op # "listener" /\ ev.done # "") =>
     IF ev.done = "ok" THEN ev.toasts \cap SuccessToasts # {}
                       ELSE ev.toasts \cap ErrorToasts # {}

\* C13: a record that exists is changed only by partial merges: every step
\* leaves it in place with the createdAt it had and with all its fields.
C13_RecordOnlyMerged ==
  [][\A u \in Uids : store[u] # EmptyRec =>
       /\ DOMAIN store[u] \subseteq DOMAIN store'[u]
       /\ Has(store[u], "createdAt") => store'[u].createdAt = store[u].createdAt]_vars

\* C14: loading is true initially; it becomes false only when the listener has
\* processed a notification: at once for a null identity, with currentUser
\* and userProfile null, and for a non-null identity when the profile fetch the
\* listener made for it returns; once false it stays false, and no public
\* operation is invoked while it is true.
C14_LoadingUntilFirstNotification ==
  /\ loading = TRUE
  /\ [][~loading => ~loading']_vars
  /\ [][(loading /\ ~loading') =>
          \/ /\ notif # <<>> /\ Head(notif) = Nobody /\ AuthStateChanged
             /\ currentUser' = Nobody /\ userProfile' = EmptyRec
          \/ \E i \in Pending :
               /\ i.op = "listener" /\ i.uid = currentUser' /\ i.uid # Nobody
               /\ fetchGetFailed(i) \/ fetchFound(i) \/ fetchCreated(i)]_vars
  /\ [][loading => (ev'.op \in {"listener", "online", "offline"} /\ left' >= left - 1
                    /\ (left' < left => ev'.op \in {"online", "offline"}))]_vars
  /\ [][loading' => \A i \in BagToSet(tasks') : i.op = "listener"]_vars

\* The listener's fetch for the persisted session returned and ended loading.
C14_Witness ==
  /\ ~loading /\ ev.op = "listener" /\ ev.step = "fetchReturn"
  /\ currentUser = EmailUser /\ userProfile # EmptyRec

\* C15: when updateProfile(data) returns successfully for an identity, the
\* stored record of that identity and userProfile both hold every field of
\* data with the given value.
C15_UpdateProfileRefreshesState ==
  [][\A i \in Pending :
       (i.op = "updateProfile" /\ (fetchGetFailed(i) \/ fetchFound(i) \/ fetchCreated(i))) =>
          /\ ev'.done = "ok"
          /\ \A f \in DOMAIN i.data :
                /\ Has(store'[i.uid], f) /\ store'[i.uid][f] = i.data[f]
                /\ Has(userProfile', f) /\ userProfile'[f] = i.data[f]]_vars

\* C16: a failure of the store during fetchUserProfile (in the read or in the
\* write of the default record) makes it return null: its caller leaves
\* userProfile as it is and goes on without failing; a failure of
\* createUserProfile or updateUserProfile is rethrown: the operation that
\* called it ends with that error.
C16_OnlyFetchFailuresSwallowed ==
  /\ [][\A i \in Pending :
          (i.err # "" /\ (fetchGetFailed(i) \/ fetchCreated(i))) =>
             /\ ev'.fetched = "null"
             /\ userProfile' = userProfile
             /\ ev'.done = IF i.op = "listener" THEN "" ELSE "ok"
             /\ ev'.toasts \cap ErrorToasts = {}
             /\ i.op = "listener" => ~loading']_vars
  /\ [][\A i \in Pending :
          (/\ i.err # ""
           /\ registerAfterCreate(i) \/ googleAfterCreate(i) \/ updateProfileAfterUpdate(i)) =>
             /\ ev'.step = "end" /\ ev'.done = i.err
             /\ tasks' = Without(i)
             /\ userProfile' = userProfile]_vars

\* An operation returned normally although its fetch failed, the profile
\* held before still in place.
C16_Witness ==
  /\ ev.step = "fetchReturn" /\ ev.fetched = "null" /\ ev.done = "ok"
  /\ userProfile # EmptyRec

\* C17: the auth-state subscription made at creation stays as it is when
\* isOffline changes: it is not removed and made again, so the change of
\* isOffline brings no notification of its own and drops none.
C17_SubscriptionSurvivesConnectivity ==
  [][(isOffline' # isOffline) => notif' = notif]_vars

\* C18: within one updatePassword call the password change is sent only by the
\* step that resumes from a successful re-authentication of that call; when
\* the re-authentication fails the call ends there: no password change is
\* sent, 'Failed to update password' is shown and the error is rethrown.
C18_PasswordChangeOnlyAfterReauth ==
  /\ [][\A j \in BagToSet(tasks') :
          (At(j, "updatePassword", "updatePassword") /\ CopiesIn(j, tasks') > CopiesIn(j, tasks)) =>
             \E i \in Pending :
                /\ At(i, "updatePassword", "reauthenticate") /\ i.err = ""
                /\ i.uid = j.uid
                /\ tasks' = Become(i, j)]_vars
  /\ [][\A i \in Pending :
          (/\ At(i, "updatePassword", "reauthenticate") /\ i.err # ""
           /\ updatePasswordAfterReauth(i)) =>
             /\ tasks' = Without(i)
             /\ ev'.step = "end"
             /\ ev'.done = i.err
             /\ ev'.toasts = {"Failed to update password"}]_vars

\* An updatePassword call ended with the error of its re-authentication.
C18_Witness ==
  /\ ev.op = "updatePassword" /\ ev.step = "end" /\ ev.done = "auth/wrong-password"
  /\ \A i \in Pending : i.op # "updatePassword"

\* C19: when the provider delivers its notifications and every issued store
\* call completes or fails, loading eventually becomes false.
C19_LoadingEventuallyEnds == <>(~loading)

\* Loading ended with the listener's fetch failing while offline.
C19_Witness ==
  /\ ~loading /\ isOffline
  /\ ev.op = "listener" /\ ev.step = "fetchReturn" /\ ev.fetched = "null"
  /\ userProfile = EmptyRec /\ left = MaxOps
====
